---------------------------- MODULE Spec2Model ----------------------------
(* A model of core/block_validator.go of go-usechain: the block validator   *)
(* (ValidateBody, ValidateState, ValidateMiner), the gas-limit policy       *)
(* CalcGasLimit and the signature check VerifySig.                          *)
EXTENDS Integers, Sequences, FiniteSets, TLC

VARIABLES
    gasParent,   \* CalcGasLimit: the parent block's gasUsed and gasLimit (uint64)
    gasResult,   \* CalcGasLimit: the value returned, NoU64 before the call
    stIn,        \* ValidateState: block header, config, statedb, receipts, usedGas
    stResult,    \* ValidateState: the error returned (kind "ok" for nil)
    sigIn,       \* VerifySig: sig, hash, miner
    sigResult,   \* VerifySig: the value returned and the calls it made
    bc,          \* ValidateBody: the chain's block index and the states it holds
    bodyBlock,   \* ValidateBody: the block under validation
    bodyResult,  \* ValidateBody: the error returned and the calls it made
    chain,       \* ValidateMiner: the blocks accepted so far, genesis first
    mvBlock,     \* ValidateMiner: the header under validation
    mvReg,       \* ValidateMiner: what the miner registry in statedb answered
    mvResult     \* ValidateMiner: the error returned and the calls it made

gasVars  == <<gasParent, gasResult>>
stVars   == <<stIn, stResult>>
sigVars  == <<sigIn, sigResult>>
bodyVars == <<bc, bodyBlock, bodyResult>>
mvVars   == <<chain, mvBlock, mvReg, mvResult>>

vars == <<gasVars, stVars, sigVars, bodyVars, mvVars>>

\* a result before its call has returned
Pending == [err |-> "pending", calls |-> <<>>]

\* the value of a result variable before its call has returned
NoU64 == <<>>

(***************************************************************************)
(* uint64 arithmetic.  A uint64 is four 16-bit limbs, least significant    *)
(* first, so that every intermediate value stays inside TLC's integers     *)
(* while the arithmetic wraps modulo 2^64 exactly as Go's does.            *)
(***************************************************************************)
LimbBase == 2^16

U64(n) == <<n % LimbBase, (n \div LimbBase) % LimbBase, 0, 0>>

U64Add(a, b) ==
    LET s1 == a[1] + b[1]
        s2 == a[2] + b[2] + (s1 \div LimbBase)
        s3 == a[3] + b[3] + (s2 \div LimbBase)
        s4 == a[4] + b[4] + (s3 \div LimbBase)
    IN  <<s1 % LimbBase, s2 % LimbBase, s3 % LimbBase, s4 % LimbBase>>

U64Sub(a, b) ==
    LET d1 == a[1] - b[1]
        d2 == a[2] - b[2] - (IF d1 < 0 THEN 1 ELSE 0)
        d3 == a[3] - b[3] - (IF d2 < 0 THEN 1 ELSE 0)
        d4 == a[4] - b[4] - (IF d3 < 0 THEN 1 ELSE 0)
    IN  <<d1 % LimbBase, d2 % LimbBase, d3 % LimbBase, d4 % LimbBase>>

\* a / d for a small divisor d (d <= 2^15): schoolbook division from the top limb
U64Div(a, d) ==
    LET t4 == a[4]
        t3 == (t4 % d) * LimbBase + a[3]
        t2 == (t3 % d) * LimbBase + a[2]
        t1 == (t2 % d) * LimbBase + a[1]
    IN  <<t1 \div d, t2 \div d, t3 \div d, t4 \div d>>

U64Lt(a, b) ==
    \/ a[4] < b[4]
    \/ a[4] = b[4] /\ a[3] < b[3]
    \/ a[4] = b[4] /\ a[3] = b[3] /\ a[2] < b[2]
    \/ a[4] = b[4] /\ a[3] = b[3] /\ a[2] = b[2] /\ a[1] < b[1]

U64Le(a, b) == a = b \/ U64Lt(a, b)

(***************************************************************************)
(* params: the protocol parameters CalcGasLimit reads.                     *)
(***************************************************************************)
GasLimitBoundDivisor == 1024

MinGasLimit == U64(5000)

TargetGasLimit == U64(4712388)

(***************************************************************************)
(* CalcGasLimit                                                            *)
(***************************************************************************)
\* contrib = (parentGasUsed + parentGasUsed/2) / GasLimitBoundDivisor
GasContrib(parent) ==
    U64Div(U64Add(parent.gasUsed, U64Div(parent.gasUsed, 2)), GasLimitBoundDivisor)

\* decay = parentGasLimit / GasLimitBoundDivisor - 1
GasDecay(parent) ==
    U64Sub(U64Div(parent.gasLimit, GasLimitBoundDivisor), U64(1))

\* CalcGasLimit with the decay left out of the first estimate
CalcGasLimitNoDecay(parent) ==
    LET contrib == GasContrib(parent)
        decay   == GasDecay(parent)
        limit0  == U64Add(parent.gasLimit, contrib)
        limit1  == IF U64Lt(limit0, MinGasLimit) THEN MinGasLimit ELSE limit0
        limit2  == U64Add(parent.gasLimit, decay)
    IN  IF U64Lt(limit1, TargetGasLimit)
        THEN IF U64Lt(TargetGasLimit, limit2) THEN TargetGasLimit ELSE limit2
        ELSE limit1

CalcGasLimit(parent) ==
    LET contrib == GasContrib(parent)
        decay   == GasDecay(parent)
        limit0  == U64Add(U64Sub(parent.gasLimit, decay), contrib)
        limit1  == IF U64Lt(limit0, MinGasLimit) THEN MinGasLimit ELSE limit0
        limit2  == U64Add(parent.gasLimit, decay)
    IN  IF U64Lt(limit1, TargetGasLimit)
        THEN IF U64Lt(TargetGasLimit, limit2) THEN TargetGasLimit ELSE limit2
        ELSE limit1

(***************************************************************************)
(* The parents CalcGasLimit is applied to: every combination of limbs      *)
(* around the values where its branches and its wrap-arounds change.       *)
(***************************************************************************)
GasSpread == 1

Near(k) == {x \in (k - GasSpread)..(k + GasSpread) : x >= 0 /\ x < LimbBase}

LowLimbs ==
    Near(0) \cup Near(1024) \cup Near(5000) \cup Near(59332) \cup Near(LimbBase - 1)

MidLimbs == {0, 71, LimbBase - 1}

HighLimbs == {0, 2^15 - 1, 2^15, 43690, LimbBase - 1}

GasValues ==
    {<<l1, l2, l3, l4>> : l1 \in LowLimbs, l2 \in MidLimbs,
                          l3 \in {0, LimbBase - 1}, l4 \in HighLimbs}

GasInit ==
    /\ gasParent \in [gasUsed : GasValues, gasLimit : GasValues]
    /\ gasResult = NoU64

GasIdle ==
    /\ gasParent = [gasUsed |-> U64(0), gasLimit |-> U64(0)]
    /\ gasResult = NoU64

CalcGasLimitCall ==
    /\ gasResult = NoU64
    /\ gasResult' = CalcGasLimit(gasParent)
    /\ UNCHANGED <<gasParent, stVars, sigVars, bodyVars, mvVars>>

(***************************************************************************)
(* ValidateState                                                           *)
(***************************************************************************)
\* types.CreateBloom: the bitwise OR of the receipts' log blooms
RECURSIVE CreateBloom(_)
CreateBloom(receipts) ==
    IF receipts = <<>> THEN {}
    ELSE Head(receipts).bloom \cup CreateBloom(Tail(receipts))

\* types.DeriveSha: the trie root committing to the ordered list
DeriveSha(list) == <<"sha", list>>

\* params.ChainConfig.IsEIP158: the fork is configured and reached
NoFork == -1

IsEIP158(config, num) == config.eip158Block # NoFork /\ config.eip158Block <= num

\* state.StateDB.IntermediateRoot: empty objects leave the trie when deleted
IntermediateRoot(statedb, deleteEmptyObjects) ==
    <<"root", statedb.base, statedb.empties /\ ~deleteEmptyObjects>>

StateOk == [err |-> "ok", remote |-> <<>>, local |-> <<>>]

StatePending == [err |-> "pending", remote |-> <<>>, local |-> <<>>]

\* ValidateState with the receipt root compared before the bloom
ValidateStateRootFirst(in) ==
    LET header     == in.header
        rbloom     == CreateBloom(in.receipts)
        receiptSha == DeriveSha(in.receipts)
        root       == IntermediateRoot(in.statedb, IsEIP158(in.config, header.number))
    IN  IF header.gasUsed # in.usedGas
        THEN [err |-> "GasUsedMismatch", remote |-> <<header.gasUsed>>, local |-> <<in.usedGas>>]
        ELSE IF receiptSha # header.receiptHash
        THEN [err |-> "ReceiptRootMismatch", remote |-> header.receiptHash, local |-> receiptSha]
        ELSE IF rbloom # header.bloom
        THEN [err |-> "BloomMismatch", remote |-> <<header.bloom>>, local |-> <<rbloom>>]
        ELSE IF header.root # root
        THEN [err |-> "StateRootMismatch", remote |-> header.root, local |-> root]
        ELSE StateOk

ValidateState(in) ==
    LET header     == in.header
        rbloom     == CreateBloom(in.receipts)
        receiptSha == DeriveSha(in.receipts)
        root       == IntermediateRoot(in.statedb, IsEIP158(in.config, header.number))
    IN  IF header.gasUsed # in.usedGas
        THEN [err |-> "GasUsedMismatch", remote |-> <<header.gasUsed>>, local |-> <<in.usedGas>>]
        ELSE IF rbloom # header.bloom
        THEN [err |-> "BloomMismatch", remote |-> <<header.bloom>>, local |-> <<rbloom>>]
        ELSE IF receiptSha # header.receiptHash
        THEN [err |-> "ReceiptRootMismatch", remote |-> header.receiptHash, local |-> receiptSha]
        ELSE IF header.root # root
        THEN [err |-> "StateRootMismatch", remote |-> header.root, local |-> root]
        ELSE StateOk

MaxReceipts == 2

MaxGas == 1

BloomBits == {1, 2}

Receipts == [bloom : {{1}, {2}}]

ReceiptLists == UNION {[1..n -> Receipts] : n \in 0..MaxReceipts}

StateDBs == [base : {"s1", "s2"}, empties : BOOLEAN]

Roots == {IntermediateRoot(db, del) : db \in StateDBs, del \in BOOLEAN}

StateHeaders ==
    [number : {1, 2}, gasUsed : 0..MaxGas, bloom : SUBSET BloomBits,
     receiptHash : {DeriveSha(l) : l \in {<<>>, <<[bloom |-> {1}]>>, <<[bloom |-> {2}]>>}},
     root : Roots]

StateInit ==
    /\ stIn \in [header : StateHeaders, config : [eip158Block : {NoFork, 2}],
                  statedb : StateDBs, receipts : ReceiptLists, usedGas : 0..MaxGas]
    /\ stResult = StatePending

StateIdle ==
    /\ stIn = [header   |-> [number |-> 1, gasUsed |-> 0, bloom |-> {},
                             receiptHash |-> DeriveSha(<<>>),
                             root |-> IntermediateRoot([base |-> "s1", empties |-> FALSE], FALSE)],
               config   |-> [eip158Block |-> NoFork],
               statedb  |-> [base |-> "s1", empties |-> FALSE],
               receipts |-> <<>>,
               usedGas  |-> 0]
    /\ stResult = StatePending

ValidateStateCall ==
    /\ stResult.err = "pending"
    /\ stResult' = ValidateState(stIn)
    /\ UNCHANGED <<stIn, gasVars, sigVars, bodyVars, mvVars>>

(***************************************************************************)
(* VerifySig.  A signature is modelled by what the crypto package makes of *)
(* it: its length, the key that made it (NoKey when no key can be          *)
(* recovered from it), the digest it was made over, and whether its (r, s) *)
(* half is in the canonical form VerifySignature insists on.               *)
(***************************************************************************)
Keys == {"k1", "k2"}

NoKey == "nokey"

\* the key recovery yields when the digest is not the one that was signed
StrayKey == "kx"

SigLength == 65

\* crypto.PubkeyToAddress
PubkeyToAddress(pub) ==
    CASE pub = "k1" -> "a1"
      [] pub = "k2" -> "a2"
      [] OTHER      -> "ax"

\* crypto.Ecrecover: an error for a signature of the wrong length or one no
\* key can be recovered from, else the recovered public key
Ecrecover(hash, sig) ==
    IF Len(sig.bytes) # SigLength \/ sig.signer = NoKey
    THEN [err |-> TRUE, pub |-> NoKey]
    ELSE [err |-> FALSE, pub |-> IF hash = sig.msg THEN sig.signer ELSE StrayKey]

\* crypto.VerifySignature(pub, hash, sig[:64]): a 64-byte canonical (r, s)
\* that pub made over hash
VerifySignature(pub, hash, sig, rs) ==
    /\ Len(rs) = SigLength - 1
    /\ sig.canonical
    /\ pub = (IF hash = sig.msg THEN sig.signer ELSE StrayKey)

\* sig[:64]: a panic when the slice is shorter
CanSlice(bytes, n) == Len(bytes) >= n

\* VerifySig comparing the address before (and without) checking the signature
VerifySigAddressOnly(sig, hash, miner) ==
    LET rec == Ecrecover(hash, sig)
    IN  IF rec.err
        THEN [ok |-> FALSE, fault |-> FALSE, calls |-> <<"Ecrecover">>]
        ELSE [ok |-> PubkeyToAddress(rec.pub) = miner, fault |-> FALSE,
              calls |-> <<"Ecrecover", "ToECDSAPub", "PubkeyToAddress">>]

VerifySig(sig, hash, miner) ==
    LET rec == Ecrecover(hash, sig)
    IN  IF rec.err
        THEN [ok |-> FALSE, fault |-> FALSE, calls |-> <<"Ecrecover">>]
        ELSE IF ~CanSlice(sig.bytes, SigLength - 1)
        THEN [ok |-> FALSE, fault |-> TRUE, calls |-> <<"Ecrecover", "ToECDSAPub">>]
        ELSE IF ~VerifySignature(rec.pub, hash, sig, SubSeq(sig.bytes, 1, SigLength - 1))
        THEN [ok |-> FALSE, fault |-> FALSE,
              calls |-> <<"Ecrecover", "ToECDSAPub", "VerifySignature">>]
        ELSE [ok |-> PubkeyToAddress(rec.pub) = miner, fault |-> FALSE,
              calls |-> <<"Ecrecover", "ToECDSAPub", "VerifySignature", "PubkeyToAddress">>]

SigPending == [ok |-> FALSE, fault |-> FALSE, calls |-> <<>>]

\* n bytes whose content the other fields of the signature describe
Bytes(n) == [i \in 1..n |-> 0]

SigSlack == 1

SigLengths == {0} \cup ((SigLength - 1 - SigSlack)..(SigLength + SigSlack))

SigDigests == {<<"d1">>, <<"d2">>}

Sigs ==
    {[bytes |-> Bytes(n), signer |-> k, msg |-> d, canonical |-> c] :
        n \in SigLengths, k \in Keys \cup {NoKey}, d \in SigDigests, c \in BOOLEAN}

SigInit ==
    /\ sigIn \in [sig : Sigs, hash : SigDigests, miner : {"a1", "a2", "ax"}]
    /\ sigResult = SigPending

SigIdle ==
    /\ sigIn = [sig   |-> [bytes |-> <<>>, signer |-> NoKey, msg |-> <<"d1">>,
                           canonical |-> FALSE],
                hash  |-> <<"d1">>,
                miner |-> "a1"]
    /\ sigResult = SigPending

VerifySigCall ==
    /\ sigResult.calls = <<>>
    /\ sigResult' = VerifySig(sigIn.sig, sigIn.hash, sigIn.miner)
    /\ UNCHANGED <<sigIn, gasVars, stVars, bodyVars, mvVars>>

(***************************************************************************)
(* ValidateBody                                                            *)
(***************************************************************************)
\* BlockChain.HasBlock: the block index holds (hash, number)
HasBlock(index, hash, number) == <<hash, number>> \in index.blocks

\* BlockChain.HasBlockAndState: the block is in the index and its state is held
HasBlockAndState(index, hash, number) ==
    /\ <<hash, number>> \in index.blocks
    /\ <<hash, number>> \in index.states

\* block.NumberU64()-1: at number 0 the uint64 wraps to 2^64-1, a number no
\* block of the model carries; WrappedNumber stands for it
WrappedNumber == -1

ParentNumber(number) == IF number = 0 THEN WrappedNumber ELSE number - 1

\* types.CalcUncleHash
CalcUncleHash(uncles) == <<"uncles", uncles>>

BodyError(kind, calls) == [err |-> kind, calls |-> calls]

\* ValidateBody looking the parent up in the index only
ValidateBodyNoStateCheck(index, block) ==
    IF HasBlockAndState(index, block.hash, block.number)
    THEN BodyError("KnownBlock", <<>>)
    ELSE IF ~HasBlock(index, block.parentHash, ParentNumber(block.number))
    THEN BodyError("UnknownAncestor", <<>>)
    ELSE IF block.unclesErr
    THEN BodyError("VerifyUncles", <<"VerifyUncles">>)
    ELSE IF CalcUncleHash(block.uncles) # block.uncleHash
    THEN BodyError("UncleRootMismatch", <<"VerifyUncles", "CalcUncleHash">>)
    ELSE IF DeriveSha(block.transactions) # block.txHash
    THEN BodyError("TxRootMismatch", <<"VerifyUncles", "CalcUncleHash", "DeriveSha">>)
    ELSE BodyError("ok", <<"VerifyUncles", "CalcUncleHash", "DeriveSha">>)

ValidateBody(index, block) ==
    IF HasBlockAndState(index, block.hash, block.number)
    THEN BodyError("KnownBlock", <<>>)
    ELSE IF ~HasBlockAndState(index, block.parentHash, ParentNumber(block.number))
    THEN IF ~HasBlock(index, block.parentHash, ParentNumber(block.number))
         THEN BodyError("UnknownAncestor", <<>>)
         ELSE BodyError("PrunedAncestor", <<>>)
    ELSE IF block.unclesErr
    THEN BodyError("VerifyUncles", <<"VerifyUncles">>)
    ELSE IF CalcUncleHash(block.uncles) # block.uncleHash
    THEN BodyError("UncleRootMismatch", <<"VerifyUncles", "CalcUncleHash">>)
    ELSE IF DeriveSha(block.transactions) # block.txHash
    THEN BodyError("TxRootMismatch", <<"VerifyUncles", "CalcUncleHash", "DeriveSha">>)
    ELSE BodyError("ok", <<"VerifyUncles", "CalcUncleHash", "DeriveSha">>)

MaxNumber == 2

BlockHashes == {"h0", "h1", "h2"}

BlockIds == {<<"h0", 0>>, <<"h1", 1>>, <<"h2", 1>>, <<"h2", 2>>}

ChainIndexes ==
    {[blocks |-> b, states |-> st] : b \in SUBSET BlockIds, st \in SUBSET BlockIds}

BodyLists == {<<>>, <<"x">>}

BodyBlocks ==
    [hash : BlockHashes, number : 0..MaxNumber, parentHash : BlockHashes,
     unclesErr : BOOLEAN,
     uncles : BodyLists, uncleHash : {CalcUncleHash(l) : l \in BodyLists},
     transactions : BodyLists, txHash : {DeriveSha(l) : l \in BodyLists}]

BodyInit ==
    /\ bc \in {c \in ChainIndexes : c.states \subseteq c.blocks}
    /\ bodyBlock \in BodyBlocks
    /\ bodyResult = Pending

BodyIdle ==
    /\ bc = [blocks |-> {}, states |-> {}]
    /\ bodyBlock = [hash |-> "h0", number |-> 0, parentHash |-> "h0",
                    unclesErr |-> FALSE,
                    uncles |-> <<>>, uncleHash |-> CalcUncleHash(<<>>),
                    transactions |-> <<>>, txHash |-> DeriveSha(<<>>)]
    /\ bodyResult = Pending

ValidateBodyCall ==
    /\ bodyResult.err = "pending"
    /\ bodyResult' = ValidateBody(bc, bodyBlock)
    /\ UNCHANGED <<bc, bodyBlock, gasVars, stVars, sigVars, mvVars>>

(***************************************************************************)
(* ValidateMiner                                                           *)
(*                                                                         *)
(* A minerQrSignature is its bytes (a 65-byte signature followed by the    *)
(* QR digest) together with what those bytes encode: the signature's       *)
(* signer and signed digest, and the digest carried after it.  A big.Int   *)
(* that a peer chooses (difficultyLevel) is hi * 2^63 + lo.                *)
(***************************************************************************)
BlockInterval == 5

PreQrLength == 97

ZeroAddress == "zero"

GenesisQr == <<"genesis">>

\* common.GenesisMinerQrSignature
GenesisMinerQrSignature ==
    [bytes |-> Bytes(PreQrLength),
     sig   |-> [signer |-> NoKey, msg |-> GenesisQr, canonical |-> FALSE],
     qr    |-> GenesisQr]

\* big.Int.Int64: the low 64 bits as a two's complement number, lo - 2^63 * neg
BigInt64(x) == [neg |-> x.hi % 2 = 1, lo |-> x.lo]

\* a < b for an int64 a as BigInt64 gives it and a small b
Int64Lt(a, b) == a.neg \/ a.lo < b

Int64IsZero(a) == ~a.neg /\ a.lo = 0

\* minerlist.ReadMinerNum: the registry size, small enough that Int64() is exact
ReadMinerNum(statedb) == statedb.total

\* minerlist.IsMiner: (isMiner, flag), flag 1 for a punished miner
IsMiner(statedb, coinbase) == <<statedb.isMiner, statedb.flag>>

\* minerlist.IsValidMiner: (valid, level, preMinerid); the rotation counter
\* n = tstampSub / BlockSlot is only an argument of this query
IsValidMiner(statedb, coinbase) == <<statedb.valid, statedb.level, statedb.preMinerid>>

\* minerlist.ReadMinerAddress: the bytes of the registry's address at index id
ReadMinerAddress(statedb, id) ==
    IF id + 1 \in DOMAIN statedb.miners THEN <<statedb.miners[id + 1]>> ELSE <<>>

\* common.BytesToAddress: the trailing address-length part of the bytes
BytesToAddress(b) == IF b = <<>> THEN ZeroAddress ELSE b[Len(b)]

\* common.Address.Bytes
AddressBytes(a) == <<a>>

\* minerlist.CalQrOrIdNext: the hash of the previous coinbase, the block number
\* and the digest the previous minerQrSignature carries; an error when the
\* previous minerQrSignature carries no digest
CalQrOrIdNext(base, number, preQrSignature) ==
    IF Len(preQrSignature.bytes) # PreQrLength
    THEN [err |-> TRUE, qr |-> <<>>]
    ELSE [err |-> FALSE, qr |-> <<"qr", base, number, preQrSignature.qr>>]

\* minerQrSignature[:65]
SigPart(m) ==
    [bytes |-> SubSeq(m.bytes, 1, SigLength), signer |-> m.sig.signer,
     msg |-> m.sig.msg, canonical |-> m.sig.canonical]

\* common.BytesToHash(minerQrSignature[65:])
QrPart(m) == m.qr

\* common.Hash.String
HashString(h) == <<"0x", h>>

MinerError(kind, calls) == [err |-> kind, calls |-> calls]

\* the length test accepting any minerQrSignature long enough to hold a signature
QrLengthOkLoose(minerQrSignature) == Len(minerQrSignature.bytes) >= SigLength

\* len(minerQrSignature) != minerlist.PreQrLength
QrLengthOk(minerQrSignature) == Len(minerQrSignature.bytes) = PreQrLength

\* the digest comparison left out
QrDigestUnchecked(qr, minerQrSignature) == TRUE

\* qr.String() != qrtemp.String()
QrDigestOk(qr, minerQrSignature) == HashString(qr) = HashString(QrPart(minerQrSignature))

\* the primary miner compared with the block's own coinbase
PrimaryMinerOkCoinbase(header, preMiner, totalMinerNum) ==
    ~(AddressBytes(header.primaryMiner) # AddressBytes(header.coinbase)
      /\ totalMinerNum # 0)

\* bytes.Compare(header.PrimaryMiner.Bytes(), preMiner.Bytes()) != 0 && totalMinerNum.Int64() != 0
PrimaryMinerOk(header, preMiner, totalMinerNum) ==
    ~(AddressBytes(header.primaryMiner) # AddressBytes(preMiner)
      /\ totalMinerNum # 0)

\* the difficulty level test with its comparison turned round
DifficultyLevelOkReversed(header, level) ==
    IF header.number = 1
    THEN Int64IsZero(BigInt64(header.difficultyLevel))
    ELSE LET d == BigInt64(header.difficultyLevel)
         IN  d.neg \/ d.lo <= level

\* the difficulty level test: exactly 0 at block 1, else level > declared fails
DifficultyLevelOk(header, level) ==
    IF header.number = 1
    THEN Int64IsZero(BigInt64(header.difficultyLevel))
    ELSE ~Int64Lt(BigInt64(header.difficultyLevel), level)

\* the checks of ValidateMiner from IsValidMiner on
ValidateMinerTail(header, statedb, totalMinerNum, calls) ==
    LET ivm        == IsValidMiner(statedb, header.coinbase)
        level      == ivm[2]
        preMinerid == ivm[3]
        preMiner   == IF totalMinerNum # 0
                      THEN BytesToAddress(ReadMinerAddress(statedb, preMinerid))
                      ELSE ZeroAddress
        calls1     == Append(calls, "IsValidMiner")
        calls2     == IF totalMinerNum # 0 THEN Append(calls1, "ReadMinerAddress")
                      ELSE calls1
    IN  IF ~ivm[1]
        THEN MinerError("InvalidMiner", calls1)
        ELSE IF ~PrimaryMinerOk(header, preMiner, totalMinerNum)
        THEN MinerError("PrimaryMinerMismatch", calls2)
        ELSE IF ~DifficultyLevelOk(header, level)
        THEN MinerError("DifficultyLevelMismatch", calls2)
        ELSE MinerError("ok", calls2)

ValidateMiner(header, parent, statedb) ==
    LET tstampSub        == header.time - parent.time
        totalMinerNum    == ReadMinerNum(statedb)
        im               == IsMiner(statedb, header.coinbase)
        preQrSignature   == IF header.number = 1 THEN GenesisMinerQrSignature
                            ELSE parent.minerQrSignature
        minerQrSignature == header.minerQrSignature
        next             == CalQrOrIdNext(parent.coinbase, header.number, preQrSignature)
        qr               == next.qr
        calls0           == <<"ReadMinerNum", "IsMiner", "CalQrOrIdNext">>
    IN  IF tstampSub < BlockInterval
        THEN MinerError("BlockTooFast", <<>>)
        ELSE IF ~im[1]
        THEN IF im[2] = 1
             THEN MinerError("MinerPunished", <<"ReadMinerNum", "IsMiner">>)
             ELSE MinerError("MinerNotRegistered", <<"ReadMinerNum", "IsMiner">>)
        ELSE IF next.err
        THEN MinerError("QrError", calls0)
        ELSE IF header.number > 1
        THEN IF ~QrLengthOk(minerQrSignature)
             THEN MinerError("QrLengthInvalid", calls0)
             ELSE IF ~QrDigestOk(qr, minerQrSignature)
             THEN MinerError("QrMismatch", calls0 \o <<"QrCompare">>)
             ELSE IF ~VerifySig(SigPart(minerQrSignature), qr, header.coinbase).ok
             THEN MinerError("InvalidQrSignature", calls0 \o <<"QrCompare", "VerifySig">>)
             ELSE ValidateMinerTail(header, statedb, totalMinerNum,
                                    calls0 \o <<"QrCompare", "VerifySig">>)
        ELSE ValidateMinerTail(header, statedb, totalMinerNum, calls0)

MaxChain == 3

MaxLevel == 2

Registry == <<"a1", "a2">>

Coinbases == {"a1", "a2"}

DifficultyLevels ==
    [hi : {0}, lo : 0..MaxLevel] \cup {[hi |-> 1, lo |-> 0], [hi |-> 2, lo |-> 0]}

JunkQr == <<"junk">>

\* the minerQrSignatures a peer may send where expected is the digest due
QrSignatures(expected) ==
    {[bytes |-> Bytes(n),
      sig   |-> [signer |-> k, msg |-> m, canonical |-> TRUE],
      qr    |-> q] :
        n \in {PreQrLength - 1, PreQrLength}, k \in Keys,
        m \in {expected, JunkQr}, q \in {expected, JunkQr}}

\* the digest an honest miner embeds in the next block
ExpectedQr(parent) ==
    IF parent.number = 0 THEN <<"qr", parent.coinbase, 1, GenesisQr>>
    ELSE <<"qr", parent.coinbase, parent.number + 1, parent.minerQrSignature.qr>>

\* the headers a peer may send on top of parent (the header checks that run
\* before ValidateMiner fix the number)
Headers(parent) ==
    [number           : {parent.number + 1},
     time             : {parent.time + BlockInterval - 1, parent.time + BlockInterval},
     coinbase         : Coinbases,
     primaryMiner     : Coinbases,
     difficultyLevel  : DifficultyLevels,
     minerQrSignature : QrSignatures(ExpectedQr(parent))]

\* what the registry may answer
RegistryViews ==
    {r \in [total : 0..Len(Registry), isMiner : BOOLEAN, flag : {0, 1}, valid : BOOLEAN,
            level : 0..MaxLevel, preMinerid : 0..(Len(Registry) - 1),
            miners : {SubSeq(Registry, 1, n) : n \in 0..Len(Registry)}] :
        /\ r.miners = SubSeq(Registry, 1, r.total)
        /\ r.preMinerid < r.total \/ r.preMinerid = 0
        \* an answer ValidateMiner never reads is left at its default
        /\ r.isMiner => r.flag = 0
        /\ ~r.isMiner => ~r.valid
        /\ ~r.valid => r.level = 0 /\ r.preMinerid = 0}

NoAnswers ==
    [total |-> 0, isMiner |-> FALSE, flag |-> 0, valid |-> FALSE, level |-> 0,
     preMinerid |-> 0, miners |-> <<>>]

\* the answers the calls made have read; the others keep their defaults
Answered(r, calls) ==
    LET asked(c) == \E i \in DOMAIN calls : calls[i] = c
    IN  [total      |-> IF asked("ReadMinerNum") THEN r.total ELSE 0,
         miners     |-> IF asked("ReadMinerNum") THEN r.miners ELSE <<>>,
         isMiner    |-> asked("IsMiner") /\ r.isMiner,
         flag       |-> IF asked("IsMiner") THEN r.flag ELSE 0,
         valid      |-> asked("IsValidMiner") /\ r.valid,
         level      |-> IF asked("IsValidMiner") THEN r.level ELSE 0,
         preMinerid |-> IF asked("IsValidMiner") THEN r.preMinerid ELSE 0]

\* the fields of a block that ValidateMiner reads when it is the parent
AsParent(header) ==
    [number |-> header.number, time |-> header.time, coinbase |-> header.coinbase,
     minerQrSignature |-> header.minerQrSignature]

Genesis ==
    [number |-> 0, time |-> 0, coinbase |-> "a0",
     minerQrSignature |-> [bytes |-> <<>>,
                           sig |-> [signer |-> NoKey, msg |-> GenesisQr, canonical |-> FALSE],
                           qr |-> GenesisQr]]

NoHeader ==
    [number |-> 0, time |-> 0, coinbase |-> "a0", primaryMiner |-> "a0",
     difficultyLevel |-> [hi |-> 0, lo |-> 0],
     minerQrSignature |-> Genesis.minerQrSignature]

MinerInit ==
    /\ chain = <<Genesis>>
    /\ mvBlock = NoHeader
    /\ mvReg = NoAnswers
    /\ mvResult = Pending

MinerIdle == MinerInit

Tip == chain[Len(chain)]

\* a peer's block on top of the chain is handed to ValidateMiner
ValidateMinerCall ==
    /\ mvResult.err = "pending"
    /\ Len(chain) <= MaxChain
    /\ \E header \in Headers(Tip), r \in RegistryViews :
          LET res == ValidateMiner(header, Tip, r)
          IN  /\ mvBlock' = header
              /\ mvReg' = Answered(r, res.calls)
              /\ mvResult' = res
    /\ UNCHANGED <<chain, gasVars, stVars, sigVars, bodyVars>>

\* the caller writes an accepted block to the chain
InsertAccepted ==
    /\ mvResult.err = "ok"
    /\ chain' = Append(chain, AsParent(mvBlock))
    /\ mvBlock' = NoHeader
    /\ mvReg' = NoAnswers
    /\ mvResult' = Pending
    /\ UNCHANGED <<gasVars, stVars, sigVars, bodyVars>>

\* the caller drops a rejected block
DropRejected ==
    /\ mvResult.err \notin {"pending", "ok"}
    /\ mvBlock' = NoHeader
    /\ mvReg' = NoAnswers
    /\ mvResult' = Pending
    /\ UNCHANGED <<chain, gasVars, stVars, sigVars, bodyVars>>

MinerNext == ValidateMinerCall \/ InsertAccepted \/ DropRejected

(***************************************************************************)
(* The properties checked.                                                 *)
(***************************************************************************)
U64AbsDiff(a, b) == IF U64Lt(a, b) THEN U64Sub(b, a) ELSE U64Sub(a, b)

\* 2^63 - 1, the largest gas limit header verification admits
MaxHeaderGasLimit == <<LimbBase - 1, LimbBase - 1, LimbBase - 1, 2^15 - 1>>

Declared == mvBlock.difficultyLevel

\* the call got as far as the difficulty level test of a block after the first
AtDifficultyGate ==
    /\ mvBlock.number > 1
    /\ mvResult.err \in {"ok", "DifficultyLevelMismatch"}

C2_NeverBelowMin ==
    gasResult # NoU64 => U64Le(MinGasLimit, gasResult)

\* C3: for every parent, CalcGasLimit(parent) differs from the parent's gas
\* limit by at most decay (the uint64 the code computes) in either direction.
C3_BoundedByDecay ==
    gasResult # NoU64 =>
        U64Le(U64AbsDiff(gasResult, gasParent.gasLimit), GasDecay(gasParent))

\* C3 (amended): the bound holds for every parent with gasUsed <= gasLimit
\* and gasLimit <= 2^63 - 1, the parents header verification admits.
C3_BoundedByDecayValidParent ==
    (/\ gasResult # NoU64
     /\ U64Le(gasParent.gasUsed, gasParent.gasLimit)
     /\ U64Le(gasParent.gasLimit, MaxHeaderGasLimit)) =>
        U64Le(U64AbsDiff(gasResult, gasParent.gasLimit), GasDecay(gasParent))

C3_Witness ==
    /\ gasResult # NoU64
    /\ U64Le(gasParent.gasUsed, gasParent.gasLimit)
    /\ U64Le(gasParent.gasLimit, MaxHeaderGasLimit)
    /\ U64Lt(TargetGasLimit, gasParent.gasLimit)
    /\ gasResult # gasParent.gasLimit
    /\ gasResult # TargetGasLimit

BodyId == <<bodyBlock.hash, bodyBlock.number>>

BodyParentId == <<bodyBlock.parentHash, ParentNumber(bodyBlock.number)>>

BodyKnown == BodyId \in bc.blocks /\ BodyId \in bc.states

\* C4: ValidateBody returns KnownBlock when the block has block and state in
\* the chain; otherwise UnknownAncestor when the parent is absent from the
\* block index and PrunedAncestor when the parent is in the index without its
\* state; and in none of the three is an uncle or root check evaluated.
C4_LinkageBeforeBody ==
    bodyResult.err # "pending" =>
        /\ bodyResult.err = "KnownBlock" <=> BodyKnown
        /\ bodyResult.err = "UnknownAncestor"
              <=> (~BodyKnown /\ BodyParentId \notin bc.blocks)
        /\ bodyResult.err = "PrunedAncestor"
              <=> (~BodyKnown /\ BodyParentId \in bc.blocks /\ BodyParentId \notin bc.states)
        /\ bodyResult.err \in {"KnownBlock", "UnknownAncestor", "PrunedAncestor"}
              => bodyResult.calls = <<>>

C4_Witness ==
    /\ bodyResult.err = "PrunedAncestor"
    /\ BodyParentId \in bc.blocks
    /\ bodyBlock.unclesErr

Called(res, c) == \E i \in DOMAIN res.calls : res.calls[i] = c

\* a block after the first, with a minerQrSignature of the wrong length, that
\* passed the timing and eligibility gates
WrongLengthPastGates ==
    /\ mvBlock.number > 1
    /\ Len(mvBlock.minerQrSignature.bytes) # PreQrLength
    /\ mvResult.err \notin {"pending", "BlockTooFast", "MinerPunished", "MinerNotRegistered"}

\* C5: a block with number > 1 whose minerQrSignature has the wrong length is
\* rejected with QrLengthInvalid before any cryptographic step: the length
\* test precedes CalQrOrIdNext, the digest comparison and VerifySig.
C5_LengthBeforeAllCrypto ==
    WrongLengthPastGates =>
        /\ mvResult.err = "QrLengthInvalid"
        /\ ~Called(mvResult, "CalQrOrIdNext")
        /\ ~Called(mvResult, "QrCompare")
        /\ ~Called(mvResult, "VerifySig")

\* C5 (amended): CalQrOrIdNext runs before the length test and its error is
\* returned first; when it succeeds, the block is rejected with
\* QrLengthInvalid and neither the digest comparison nor VerifySig has run.
C5_LengthBeforeChecks ==
    WrongLengthPastGates =>
        /\ Called(mvResult, "CalQrOrIdNext")
        /\ mvResult.err \in {"QrError", "QrLengthInvalid"}
        /\ mvResult.err = "QrError"
              <=> CalQrOrIdNext(Tip.coinbase, mvBlock.number, Tip.minerQrSignature).err
        /\ ~Called(mvResult, "QrCompare")
        /\ ~Called(mvResult, "VerifySig")

C5_Witness ==
    /\ WrongLengthPastGates
    /\ mvResult.err = "QrLengthInvalid"

\* C6: in a chain of blocks ValidateMiner accepted, every block n > 1 has a
\* minerQrSignature of length PreQrLength whose digest is
\* Hash(coinbase(n-1), n, qr(n-1)), qr(n-1) the digest block n-1 carries.
C6_QrChain ==
    \A i \in 2..Len(chain) :
        chain[i].number > 1 =>
            /\ Len(chain[i].minerQrSignature.bytes) = PreQrLength
            /\ chain[i].minerQrSignature.qr =
                  <<"qr", chain[i - 1].coinbase, chain[i].number,
                    chain[i - 1].minerQrSignature.qr>>

C6_Witness ==
    /\ Len(chain) = 4
    /\ chain[4].number = 3
    /\ chain[2].minerQrSignature.qr = JunkQr

\* C7: ValidateState succeeds iff the four recomputed values equal the
\* header's; on failure it reports the first mismatch in the order gas used,
\* bloom, receipt root, state root, and a receipt root mismatch carries both
\* hashes.
C7_FirstMismatch ==
    stResult.err # "pending" =>
        LET h       == stIn.header
            gasEq   == h.gasUsed = stIn.usedGas
            bloomEq == h.bloom = UNION {stIn.receipts[i].bloom : i \in DOMAIN stIn.receipts}
            rcptEq  == h.receiptHash = DeriveSha(stIn.receipts)
            rootEq  == h.root = IntermediateRoot(stIn.statedb,
                                                 IsEIP158(stIn.config, h.number))
        IN  /\ stResult.err = "ok" <=> (gasEq /\ bloomEq /\ rcptEq /\ rootEq)
            /\ stResult.err = "GasUsedMismatch" <=> ~gasEq
            /\ stResult.err = "BloomMismatch" <=> (gasEq /\ ~bloomEq)
            /\ stResult.err = "ReceiptRootMismatch" <=> (gasEq /\ bloomEq /\ ~rcptEq)
            /\ stResult.err = "StateRootMismatch"
                  <=> (gasEq /\ bloomEq /\ rcptEq /\ ~rootEq)
            /\ stResult.err = "ReceiptRootMismatch" =>
                  /\ stResult.remote = h.receiptHash
                  /\ stResult.local = DeriveSha(stIn.receipts)

C7_Witness ==
    /\ stResult.err = "ReceiptRootMismatch"
    /\ stIn.header.gasUsed = stIn.usedGas
    /\ stIn.header.bloom = CreateBloom(stIn.receipts)
    /\ stIn.header.root =
          IntermediateRoot(stIn.statedb, IsEIP158(stIn.config, stIn.header.number))
    /\ stIn.config.eip158Block # NoFork

\* C8: a block with number 1 whose declared difficultyLevel is not 0 is never
\* accepted by ValidateMiner.
C8_Block1LevelMustBeZero ==
    (/\ mvResult.err # "pending"
     /\ mvBlock.number = 1
     /\ (Declared.hi # 0 \/ Declared.lo # 0)) =>
        mvResult.err # "ok"

\* the registry's address at the index IsValidMiner returned
RegistryPreMiner == mvReg.miners[mvReg.preMinerid + 1]

\* C9: when totalMinerNum != 0 an accepted block's primaryMiner is the
\* registry's address at preMinerid, and a block with another primaryMiner
\* that passes the earlier gates is rejected with PrimaryMinerMismatch; when
\* totalMinerNum = 0 the primaryMiner is not checked.
C9_PrimaryMiner ==
    mvResult.err # "pending" =>
        /\ (mvResult.err = "ok" /\ mvReg.total # 0)
              => mvBlock.primaryMiner = RegistryPreMiner
        /\ (mvReg.valid /\ mvReg.total # 0 /\ mvBlock.primaryMiner # RegistryPreMiner)
              => mvResult.err = "PrimaryMinerMismatch"
        /\ mvReg.total = 0 =>
              /\ mvResult.err # "PrimaryMinerMismatch"
              /\ ~Called(mvResult, "ReadMinerAddress")

C9_Witness ==
    /\ mvResult.err = "ok"
    /\ mvReg.total # 0
    /\ mvReg.preMinerid = 1
    /\ mvBlock.primaryMiner # mvBlock.coinbase

\* C10: VerifySig returns true iff recovery succeeds, the first 64 bytes
\* verify against the recovered key, and the recovered key's address is the
\* claimed one; when recovery fails it returns false without evaluating the
\* other two checks, and it never faults.
C10_VerifySigIff ==
    sigResult.calls # <<>> =>
        LET rec == Ecrecover(sigIn.hash, sigIn.sig)
        IN  /\ sigResult.ok <=>
                  /\ ~rec.err
                  /\ VerifySignature(rec.pub, sigIn.hash, sigIn.sig,
                                     SubSeq(sigIn.sig.bytes, 1, SigLength - 1))
                  /\ PubkeyToAddress(rec.pub) = sigIn.miner
            /\ rec.err => (~sigResult.ok /\ sigResult.calls = <<"Ecrecover">>)
            /\ ~sigResult.fault

C10_Witness ==
    /\ sigResult.ok
    /\ sigResult.calls = <<"Ecrecover", "ToECDSAPub", "VerifySignature", "PubkeyToAddress">>

(***************************************************************************)
(* Specifications: one per entry point of the file.                        *)
(***************************************************************************)
InitGas == GasInit /\ StateIdle /\ SigIdle /\ BodyIdle /\ MinerIdle

SpecGas == InitGas /\ [][CalcGasLimitCall]_vars

InitState == StateInit /\ GasIdle /\ SigIdle /\ BodyIdle /\ MinerIdle

SpecState == InitState /\ [][ValidateStateCall]_vars

InitSig == SigInit /\ GasIdle /\ StateIdle /\ BodyIdle /\ MinerIdle

SpecSig == InitSig /\ [][VerifySigCall]_vars

InitBody == BodyInit /\ GasIdle /\ StateIdle /\ SigIdle /\ MinerIdle

SpecBody == InitBody /\ [][ValidateBodyCall]_vars

InitMiner == MinerInit /\ GasIdle /\ StateIdle /\ SigIdle /\ BodyIdle

SpecMiner == InitMiner /\ [][MinerNext]_vars

=============================================================================
